---- MODULE Spec2Model ----
(***************************************************************************)
(* File Dropbox: the browser's resumable uploader (index.html,             *)
(* ResumableUploader and App), the Cloudflare Worker that opens upload     *)
(* sessions (worker.js) and the Apps Script notification (Code.gs).        *)
(*                                                                         *)
(* Sizes are counted in abstract byte units.  One uploader runs per        *)
(* behaviour of Spec; SpecBroker runs the worker on arbitrary requests,    *)
(* SpecSign the worker's signer on arbitrary claims, SpecAccept one        *)
(* uploader against a storage API that accepts every chunk, SpecPending    *)
(* one against a storage API that never answers 200 or 201, SpecReturns    *)
(* one whose every request eventually returns, and SpecTasks several       *)
(* uploaders at once on one page.                                          *)
(* Each uploader action is one resumption of the async code: it consumes   *)
(* the response of the request in flight and runs the synchronous code up  *)
(* to the next await.                                                      *)
(***************************************************************************)
EXTENDS Integers, Sequences, FiniteSets, TLC

\* ------------------------------------------------------------------ bounds
\* Largest file size, in byte units.
MaxSize == 3

\* Largest chunk size, in byte units (the shipped value is 10 MiB).
MaxChunk == 2

\* Upload sessions the storage API opens for one task.
MaxSessions == 3

\* Longest client_email handed to the signer, in characters.
MaxIssLen == 2

\* Largest file and chunk size, in byte units, of the runs in which the
\* storage API accepts every chunk.
MaxAcceptSize == 25

MaxAcceptChunk == 10

\* Uploaders on one page, and the size in bytes of the files they upload.
MaxTasks == 2
TaskFileSize == 2

\* ------------------------------------------------------- program constants
\* this.maxRetries = 5
MaxRetries == 5

\* [a-z0-9-]{32,} in the origin pattern
MinIdLen == 32

\* ---------------------------------------------------------------- helpers
Min(a, b) == IF a < b THEN a ELSE b

\* Math.round((bytes / size) * 100), for non-negative arguments and size > 0.
RoundPercent(bytes, size) == (200 * bytes + size) \div (2 * size)

\* uploadUrl = null
NullUrl == 0

\* No Range header on a response.
NoRange == << >>

\* The header "Range: bytes=0-<n>".
RangeHeader(n) == << 0, n >>

\* parseInt(range.split('-')[1], 10)
ParseRangeUpper(range) == range[2]

\* response.headers.has('Range') / a truthy headers.get('Range')
HasRange(range) == range # NoRange

\* ------------------------------------------------------------ configuration
\* Values of INITIATION_URL, as words: empty, the shipped placeholder, a
\* placeholder holding the word PASTE, and a deployed worker URL.
ShippedPlaceholder == << "---", "ENTER", "YOUR", "CLOUDFLARE", "INITIATION", "URL", "HERE", "---" >>

InitiationUrls ==
    { << >>, ShippedPlaceholder, << "PASTE", "URL", "HERE" >>, << "https://worker.example.workers.dev" >> }

\* INITIATION_URL.includes('PASTE')
IncludesPASTE(url) == \E i \in 1..Len(url) : url[i] = "PASTE"

\* !INITIATION_URL || INITIATION_URL.includes('PASTE')
NotConfigured(url) == url = << >> \/ IncludesPASTE(url)

\* ================================================================ worker.js
\* ------------------------------------------------------------------ origins
\* An Origin header: absent (headers.get gives null), empty, or a value
\* <scheme>://n-<id>-0lu-script.googleusercontent.com<rest>, kept by the
\* parts the allow-list pattern looks at: the scheme, the length and the
\* alphabet of <id>, and what follows the host name.
OriginValues ==
    [ header : {"value"},
      scheme : {"https", "http"},
      idLen  : {MinIdLen - 1, MinIdLen, MinIdLen + 8},
      idChars : {"a-z0-9-", "A-Z"},
      rest   : {"", ".evil.example"} ]

AbsentOrigin == [ header |-> "absent", scheme |-> "", idLen |-> 0, idChars |-> "", rest |-> "" ]

EmptyOrigin == [ header |-> "empty", scheme |-> "", idLen |-> 0, idChars |-> "", rest |-> "" ]

Origins == OriginValues \cup { AbsentOrigin, EmptyOrigin }

\* /^https:\/\/n-([a-z0-9-]{32,})-0lu-script\.googleusercontent\.com$/.test(origin)
GoogleOriginRegexTest(origin) ==
    /\ origin.scheme = "https"
    /\ origin.idChars = "a-z0-9-"
    /\ origin.idLen >= MinIdLen
    /\ origin.rest = ""

\* isOriginAllowed: a falsy origin (null or "") is refused, else the pattern decides.
IsOriginAllowed(origin) ==
    IF origin.header # "value" THEN FALSE ELSE GoogleOriginRegexTest(origin)

Methods == {"OPTIONS", "POST", "GET"}

\* ---------------------------------------------------------------- responses
Undefined == "undefined"

NoError == [ msg |-> "", status |-> 0, text |-> "" ]

\* new Response('Origin not allowed', { status: 403 })
Respond403 ==
    [ status |-> 403, acao |-> {}, acam |-> "", acah |-> "", body |-> "text", success |-> FALSE,
      uploadUrl |-> NullUrl, error |-> NoError ]

\* The Access-Control-Allow-Origin value '*'.
AnyOrigin == [ header |-> "value", scheme |-> "*", idLen |-> 0, idChars |-> "", rest |-> "" ]

\* CorsHeaders allowing every origin.
CorsHeaders_Wildcard(origin) == { AnyOrigin }

\* corsHeaders(origin): the Access-Control-Allow-Origin value of a response.
CorsHeaders(origin) == { origin }

\* corsHeaders: 'Access-Control-Allow-Methods'
AllowMethods == "POST, OPTIONS"

\* corsHeaders: 'Access-Control-Allow-Headers'
AllowHeaders == "Content-Type"

\* handleOptions: new Response(null, { headers: corsHeaders(origin) })
HandleOptions(origin) ==
    [ status |-> 200, acao |-> CorsHeaders(origin), acam |-> AllowMethods, acah |-> AllowHeaders,
      body |-> "null", success |-> FALSE, uploadUrl |-> NullUrl, error |-> NoError ]

\* new Response('Method Not Allowed', { status: 405, headers: corsHeaders(origin) })
Respond405(origin) ==
    [ status |-> 405, acao |-> CorsHeaders(origin), acam |-> AllowMethods, acah |-> AllowHeaders,
      body |-> "text", success |-> FALSE, uploadUrl |-> NullUrl, error |-> NoError ]

\* The catch block: { success: false, error: error.message }, status 500.
RespondError(origin, err) ==
    [ status |-> 500, acao |-> CorsHeaders(origin), acam |-> AllowMethods, acah |-> AllowHeaders,
      body |-> "json", success |-> FALSE, uploadUrl |-> NullUrl, error |-> err ]

\* { success: true, uploadUrl }, status 200; uploadUrl is the Location header as read.
RespondSuccess(origin, location) ==
    [ status |-> 200, acao |-> CorsHeaders(origin), acam |-> AllowMethods, acah |-> AllowHeaders,
      body |-> "json", success |-> TRUE, uploadUrl |-> location, error |-> NoError ]

\* FetchEntry with the preflight answered before the origin is looked at.
FetchEntry_PreflightFirst(origin, method) ==
    IF method = "OPTIONS" THEN "preflight"
    ELSE IF ~IsOriginAllowed(origin) THEN "forbidden"
    ELSE IF method # "POST" THEN "methodNotAllowed"
    ELSE "proceed"

\* What fetch does with a request before its try block.
FetchEntry(origin, method) ==
    IF ~IsOriginAllowed(origin) THEN "forbidden"
    ELSE IF method = "OPTIONS" THEN "preflight"
    ELSE IF method # "POST" THEN "methodNotAllowed"
    ELSE "proceed"

\* env.PRIVATE_KEY: missing (replace throws), not a PKCS8 key (importKey
\* throws inside sign), or one of two keys that sign.
PrivateKeys == {"missing", "garbage", "valid", "rotated"}

\* The bearer tokens the token endpoint hands out.
AccessTokens == {"ya29.token", "ya29.other"}

\* Answers of the token endpoint: the transport fails, a token, an error
\* object without access_token, a body that is not JSON.
TokenResponses ==
    { [ kind |-> "throw", status |-> 0,   json |-> FALSE, access_token |-> Undefined ] }
    \cup { [ kind |-> "http", status |-> 200, json |-> TRUE, access_token |-> tok ] : tok \in AccessTokens }
    \cup { [ kind |-> "http", status |-> 400, json |-> TRUE,  access_token |-> Undefined ],
           [ kind |-> "http", status |-> 503, json |-> FALSE, access_token |-> Undefined ] }

\* getAccessToken after the token endpoint answered: tokenResponse.json()
\* then tokenData.access_token; the response status is never read.
GetAccessToken(t) ==
    IF t.kind = "throw" THEN [ threw |-> TRUE, err |-> [ msg |-> "fetch failed", status |-> 0, text |-> "" ], token |-> Undefined ]
    ELSE IF ~t.json THEN [ threw |-> TRUE, err |-> [ msg |-> "Unexpected token", status |-> 0, text |-> "" ], token |-> Undefined ]
    ELSE [ threw |-> FALSE, err |-> NoError, token |-> t.access_token ]

\* Answers of the storage API's session-create call; location is the
\* Location header (NullUrl: no such header), text the body.
DriveResponses(location) ==
    { [ kind |-> "throw", status |-> 0,   location |-> NullUrl,  text |-> "" ],
      [ kind |-> "http",  status |-> 200, location |-> location, text |-> "" ],
      [ kind |-> "http",  status |-> 200, location |-> NullUrl,  text |-> "" ],
      [ kind |-> "http",  status |-> 401, location |-> NullUrl,  text |-> "Invalid Credentials" ],
      [ kind |-> "http",  status |-> 404, location |-> NullUrl,  text |-> "File not found" ] }

\* No answer of the storage API: the session-create request was not sent.
NoDriveResponse == [ kind |-> "none", status |-> 0, location |-> NullUrl, text |-> "" ]

\* fetch after the storage API answered.
DriveOutcome(origin, d) ==
    IF d.kind = "throw" THEN RespondError(origin, [ msg |-> "fetch failed", status |-> 0, text |-> "" ])
    ELSE IF d.status = 200 THEN RespondSuccess(origin, d.location)
    ELSE RespondError(origin, [ msg |-> "Google API Error", status |-> d.status, text |-> d.text ])

\* What the try block does before the token request goes out: request.json(),
\* env.PRIVATE_KEY.replace, then sign's importKey.
BeforeToken(bodyOk, key) ==
    IF ~bodyOk THEN [ threw |-> TRUE, signCalls |-> 0, err |-> [ msg |-> "Unexpected end of JSON input", status |-> 0, text |-> "" ] ]
    ELSE IF key = "missing" THEN [ threw |-> TRUE, signCalls |-> 0, err |-> [ msg |-> "Cannot read properties of undefined", status |-> 0, text |-> "" ] ]
    ELSE IF key = "garbage" THEN [ threw |-> TRUE, signCalls |-> 1, err |-> [ msg |-> "importKey failed", status |-> 0, text |-> "" ] ]
    ELSE [ threw |-> FALSE, signCalls |-> 1, err |-> NoError ]

\* The worker's whole answer to one request, given what its environment answers.
BrokerReply(origin, method, bodyOk, key, t, d) ==
    LET entry == FetchEntry(origin, method) IN
    IF entry = "forbidden" THEN Respond403
    ELSE IF entry = "preflight" THEN HandleOptions(origin)
    ELSE IF entry = "methodNotAllowed" THEN Respond405(origin)
    ELSE IF BeforeToken(bodyOk, key).threw THEN RespondError(origin, BeforeToken(bodyOk, key).err)
    ELSE IF GetAccessToken(t).threw THEN RespondError(origin, GetAccessToken(t).err)
    ELSE DriveOutcome(origin, d)

\* --------------------------------------------------------------- the signer
\* Strings are sequences of character codes (0..255), so that btoa, the
\* regular-expression replaces and JSON's quoting act on what they act on.
\* A JSON object is the sequence of its members in insertion order.
StrMember(key, str) == [ key |-> key, isNum |-> FALSE, str |-> str, num |-> 0 ]

NumMember(key, num) == [ key |-> key, isNum |-> TRUE, str |-> << >>, num |-> num ]

\* JSON.stringify of a string: '"' and '\' get a '\' in front.
RECURSIVE JsonEscape(_)
JsonEscape(str) ==
    IF str = << >> THEN << >>
    ELSE IF Len(str) = 1 THEN (IF str[1] \in {34, 92} THEN << 92, str[1] >> ELSE str)
    ELSE JsonEscape(SubSeq(str, 1, Len(str) \div 2)) \o JsonEscape(SubSeq(str, Len(str) \div 2 + 1, Len(str)))

JsonString(str) == << 34 >> \o JsonEscape(str) \o << 34 >>

\* JSON.stringify of a non-negative integer: its decimal digits.
RECURSIVE Digits(_)
Digits(n) == IF n < 10 THEN << 48 + n >> ELSE Digits(n \div 10) \o << 48 + (n % 10) >>

JsonMember(m) == JsonString(m.key) \o << 58 >> \o (IF m.isNum THEN Digits(m.num) ELSE JsonString(m.str))

RECURSIVE JsonMembers(_)
JsonMembers(obj) ==
    IF obj = << >> THEN << >>
    ELSE IF Len(obj) = 1 THEN JsonMember(obj[1])
    ELSE JsonMember(obj[1]) \o << 44 >> \o JsonMembers(Tail(obj))

\* JSON.stringify(obj)
JsonStringify(obj) == << 123 >> \o JsonMembers(obj) \o << 125 >>

\* The base64 alphabet: A-Z, a-z, 0-9, '+', '/'.
B64Char(i) ==
    IF i < 26 THEN 65 + i
    ELSE IF i < 52 THEN 97 + (i - 26)
    ELSE IF i < 62 THEN 48 + (i - 52)
    ELSE IF i = 62 THEN 43
    ELSE 47

\* btoa(data): three bytes give four characters, a last group of one or two
\* bytes is padded with '='.  Longer data is encoded group by group, here by
\* halving at a group boundary.
RECURSIVE Btoa(_)
Btoa(data) ==
    IF data = << >> THEN << >>
    ELSE IF Len(data) = 1
    THEN << B64Char(data[1] \div 4), B64Char((data[1] % 4) * 16), 61, 61 >>
    ELSE IF Len(data) = 2
    THEN << B64Char(data[1] \div 4), B64Char((data[1] % 4) * 16 + data[2] \div 16),
            B64Char((data[2] % 16) * 4), 61 >>
    ELSE IF Len(data) = 3
    THEN << B64Char(data[1] \div 4), B64Char((data[1] % 4) * 16 + data[2] \div 16),
            B64Char((data[2] % 16) * 4 + data[3] \div 64), B64Char(data[3] % 64) >>
    ELSE LET half == 3 * (((Len(data) + 2) \div 3) \div 2)
         IN  Btoa(SubSeq(data, 1, half)) \o Btoa(SubSeq(data, half + 1, Len(data)))

\* str.replace(/c/g, with)
RECURSIVE ReplaceAll(_, _, _)
ReplaceAll(str, c, with) ==
    IF str = << >> THEN << >>
    ELSE IF Len(str) = 1 THEN (IF str[1] = c THEN with ELSE str)
    ELSE ReplaceAll(SubSeq(str, 1, Len(str) \div 2), c, with)
         \o ReplaceAll(SubSeq(str, Len(str) \div 2 + 1, Len(str)), c, with)

\* Base64Url without the three replaces.
Base64Url_Plain(data) == Btoa(data)

\* base64url(data): btoa, then .replace(/=/g, '').replace(/\+/g, '-').replace(/\//g, '_')
Base64Url(data) == ReplaceAll(ReplaceAll(ReplaceAll(Btoa(data), 61, << >>), 43, << 45 >>), 47, << 95 >>)

\* const header = { alg: 'RS256', typ: 'JWT' }
JwtHeader == << StrMember(<< 97, 108, 103 >>, << 82, 83, 50, 53, 54 >>), StrMember(<< 116, 121, 112 >>, << 74, 87, 84 >>) >>

\* sign(payload, privateKey) for a key that imports, `signature` being what
\* crypto.subtle.sign returns: header.payload.signature, each part base64url.
Sign(payload, signature) ==
    LET encodedHeader == Base64Url(JsonStringify(JwtHeader))
        encodedPayload == Base64Url(JsonStringify(payload))
        data == encodedHeader \o << 46 >> \o encodedPayload
    IN  data \o << 46 >> \o Base64Url(signature)

\* exp = iat + 3600
TokenLifetime == 3600

\* 'https://www.googleapis.com/auth/drive'
DriveScope ==
    << 104, 116, 116, 112, 115, 58, 47, 47, 119, 119, 119, 46, 103, 111, 111, 103,
       108, 101, 97, 112, 105, 115, 46, 99, 111, 109, 47, 97, 117, 116, 104, 47,
       100, 114, 105, 118, 101 >>

\* 'https://oauth2.googleapis.com/token'
TokenAudience ==
    << 104, 116, 116, 112, 115, 58, 47, 47, 111, 97, 117, 116, 104, 50, 46, 103,
       111, 111, 103, 108, 101, 97, 112, 105, 115, 46, 99, 111, 109, 47, 116, 111,
       107, 101, 110 >>

\* getAccessToken's claims: { iss: client_email, scope, aud, exp, iat }
Claims(iss, iat) ==
    << StrMember(<< 105, 115, 115 >>, iss), StrMember(<< 115, 99, 111, 112, 101 >>, DriveScope),
       StrMember(<< 97, 117, 100 >>, TokenAudience), NumMember(<< 101, 120, 112 >>, iat + TokenLifetime),
       NumMember(<< 105, 97, 116 >>, iat) >>

\* ---- reading a token back
\* The index of a base64 character.
B64Index(c) == IF \E i \in 0..63 : B64Char(i) = c THEN CHOOSE i \in 0..63 : B64Char(i) = c ELSE 0

\* atob(str), for a padded string.
RECURSIVE Atob(_)
Atob(str) ==
    IF Len(str) < 4 THEN << >>
    ELSE IF Len(str) < 8
    THEN LET i1 == B64Index(str[1])
             i2 == B64Index(str[2])
             i3 == B64Index(str[3])
             i4 == B64Index(str[4])
         IN  IF str[3] = 61 THEN << i1 * 4 + i2 \div 16 >>
             ELSE IF str[4] = 61 THEN << i1 * 4 + i2 \div 16, (i2 % 16) * 16 + i3 \div 4 >>
             ELSE << i1 * 4 + i2 \div 16, (i2 % 16) * 16 + i3 \div 4, (i3 % 4) * 64 + i4 >>
    ELSE LET half == 4 * ((Len(str) \div 4) \div 2)
         IN  Atob(SubSeq(str, 1, half)) \o Atob(SubSeq(str, half + 1, Len(str)))

\* The padding the encoder removed: '=' up to a multiple of four characters.
Padded(str) ==
    IF Len(str) % 4 = 2 THEN str \o << 61, 61 >>
    ELSE IF Len(str) % 4 = 3 THEN str \o << 61 >>
    ELSE str

\* base64url decoding: '-' and '_' back to '+' and '/', the padding back, atob.
Base64UrlDecode(str) == Atob(Padded(ReplaceAll(ReplaceAll(str, 45, << 43 >>), 95, << 47 >>)))

\* token.split('.'): the parts between the dots, the k-th one running from
\* after the (k-1)-th dot to before the k-th.
SplitDots(str) ==
    LET dots == { j \in 1..Len(str) : str[j] = 46 }
        dot(k) == IF k = 0 THEN 0
                  ELSE IF k > Cardinality(dots) THEN Len(str) + 1
                  ELSE CHOOSE j \in dots : Cardinality({ d \in dots : d < j }) = k - 1
    IN  [ k \in 1..(Cardinality(dots) + 1) |-> SubSeq(str, dot(k - 1) + 1, dot(k) - 1) ]

\* What JSON.parse answers to a text that is not an object of strings and numbers.
JsonSyntaxError == << NumMember(<< >>, -1) >>

\* A JSON string read from text[pos], the character after its opening quote.
RECURSIVE ReadString(_, _, _)
ReadString(text, pos, acc) ==
    IF pos > Len(text) THEN [ ok |-> FALSE, str |-> acc, next |-> pos ]
    ELSE IF text[pos] = 34 THEN [ ok |-> TRUE, str |-> acc, next |-> pos + 1 ]
    ELSE IF text[pos] = 92
    THEN IF pos + 1 > Len(text) THEN [ ok |-> FALSE, str |-> acc, next |-> pos ]
         ELSE ReadString(text, pos + 2, Append(acc, text[pos + 1]))
    ELSE ReadString(text, pos + 1, Append(acc, text[pos]))

\* A JSON number read from text[pos].
RECURSIVE ReadNumber(_, _, _, _)
ReadNumber(text, pos, acc, digits) ==
    IF pos <= Len(text) /\ text[pos] \in 48..57
    THEN ReadNumber(text, pos + 1, acc * 10 + (text[pos] - 48), digits + 1)
    ELSE [ ok |-> digits > 0, num |-> acc, next |-> pos ]

\* The members of an object read from text[pos], up to the closing brace.
RECURSIVE ReadMembers(_, _, _)
ReadMembers(text, pos, acc) ==
    IF pos > Len(text) \/ text[pos] # 34 THEN JsonSyntaxError
    ELSE LET key == ReadString(text, pos + 1, << >>)
             at == key.next + 1
             isStr == at <= Len(text) /\ text[at] = 34
             strVal == ReadString(text, at + 1, << >>)
             numVal == ReadNumber(text, at, 0, 0)
             ok == IF isStr THEN strVal.ok ELSE numVal.ok
             next == IF isStr THEN strVal.next ELSE numVal.next
             member == IF isStr THEN StrMember(key.str, strVal.str) ELSE NumMember(key.str, numVal.num)
         IN  IF ~key.ok \/ key.next > Len(text) \/ text[key.next] # 58 \/ ~ok \/ next > Len(text)
             THEN JsonSyntaxError
             ELSE IF text[next] = 44 THEN ReadMembers(text, next + 1, Append(acc, member))
             ELSE IF text[next] = 125 /\ next = Len(text) THEN Append(acc, member)
             ELSE JsonSyntaxError

\* JSON.parse(text), for objects whose values are strings and non-negative integers.
JsonParse(text) ==
    IF Len(text) < 2 \/ text[1] # 123 THEN JsonSyntaxError
    ELSE IF text = << 123, 125 >> THEN << >>
    ELSE ReadMembers(text, 2, << >>)

\* ---- what the signer is given
\* Characters of client_email: letters, '@', the two that base64 maps to '/'
\* and '+' at the end of a group, and the two that JSON quotes.
IssChars == {97, 64, 63, 126, 34, 92}

\* All strings over chars of length up to n.
Strings(chars, n) == UNION { [ 1..k -> chars ] : k \in 0..n }

\* Math.floor(Date.now() / 1000)
IatValues == {0, 59, 1700000000}

\* The claims objects handed to sign.
ClaimsObjects == { Claims(iss, iat) : iss \in Strings(IssChars, MaxIssLen), iat \in IatValues }

\* Results of crypto.subtle.sign, as bytes.
Signatures == { << 0 >>, << 255, 255 >>, << 251, 255, 190 >> }

\* =================================================================== state
VARIABLES
    \* ---- the worker, one request at a time
    wpc,            \* "idle", "token", "drive" (the await the handler is at), "responded"
    request,        \* [origin, method, bodyOk] of the request being handled
    env,            \* env.PRIVATE_KEY
    tokenResponse,  \* what the token endpoint answered to this request
    accessToken,    \* getAccessToken's result
    response,       \* the Response returned to the caller
    signCalls,      \* calls of sign for this request
    tokenCalls,     \* requests sent to the token endpoint for this request
    driveCalls,     \* session-create requests sent to the storage API for this request
    driveResponse,  \* what the storage API answered to this request
    signPayload,    \* the payload sign was last called with
    jwt,            \* the compact token sign last returned
    \* ---- the page: configuration, the queue, one uploader
    INITIATION_URL,
    chunkSize,      \* this.chunkSize
    uploadableFiles,\* App's state: the queue of { id, status, progress, error }
    fileSize,       \* this.file.size
    uploadUrl,      \* this.uploadUrl
    bytesUploaded,  \* this.bytesUploaded
    progress,       \* this.progress
    currentRetry,   \* this.currentRetry
    pc,             \* the await the uploader is at: "idle" (no file yet), "initiate",
                    \* "put", "query", "reinit", "notify", or "done" (start returned)
    req,            \* the chunk PUT or status query in flight: [url, start, end]
    taskStatus,     \* the status last handed to onStateChange
    taskError,      \* the error last handed to onStateChange
    \* ---- the storage API and the history the properties read
    nextSession,    \* the session URL the storage API hands out next
    discarded,      \* session URLs the uploader has replaced
    lastResp,       \* the response the last uploader step consumed
    lastSent,       \* the request the last step sent: "none", "init", "put", "query", "notify"
    failStreak,     \* failed chunk PUTs since the last accepted one
    prevEnd,        \* end of the range confirmed before lastRange, in this session
    lastRange,      \* the range confirmed last in this session: << lo, hi >>
    resetFrom,      \* the retry count that the last chunk response, if accepted, set back to 0
    putLog,         \* while every chunk PUT has been accepted in full: the sizes of the
                    \* chunk PUTs sent and the progress values published after them
    \* ---- the page with many files: one uploader per file dropped
    uploaders,      \* the ResumableUploader objects, in the order of their construction
    network,        \* the requests sent and not yet settled: [task, kind]
    clock           \* Date.now()

workerVars ==
    << wpc, request, env, tokenResponse, accessToken, response, signCalls, tokenCalls, driveCalls,
       driveResponse, signPayload, jwt >>

pageVars ==
    << INITIATION_URL, chunkSize, uploadableFiles, fileSize, uploadUrl, bytesUploaded, progress,
       currentRetry, pc, req, taskStatus, taskError, nextSession, discarded, lastResp, lastSent,
       failStreak, prevEnd, lastRange, resetFrom, putLog >>

taskVars == << uploaders, network, clock >>

vars == << workerVars, pageVars, taskVars >>

NoRequest == [ origin |-> AbsentOrigin, method |-> "", bodyOk |-> FALSE ]

NoTokenResponse == [ kind |-> "none", status |-> 0, json |-> FALSE, access_token |-> Undefined ]

NoResponse ==
    [ status |-> 0, acao |-> {}, acam |-> "", acah |-> "", body |-> "none", success |-> FALSE,
      uploadUrl |-> NullUrl, error |-> NoError ]

WorkerIdle ==
    /\ wpc = "idle"
    /\ request = NoRequest
    /\ env = "valid"
    /\ tokenResponse = NoTokenResponse
    /\ accessToken = Undefined
    /\ response = NoResponse
    /\ signCalls = 0
    /\ tokenCalls = 0
    /\ driveCalls = 0
    /\ driveResponse = NoDriveResponse
    /\ signPayload = << >>
    /\ jwt = << >>

\* ------------------------------------------------------- worker.js: fetch
\* A request arrives: fetch runs to its first await (the token request inside
\* getAccessToken) or to the Response it returns before.
WorkerFetch(origin, method, bodyOk, key) ==
    /\ wpc = "idle"
    /\ request' = [ origin |-> origin, method |-> method, bodyOk |-> bodyOk ]
    /\ env' = key
    /\ tokenResponse' = NoTokenResponse
    /\ accessToken' = Undefined
    /\ driveCalls' = 0
    /\ driveResponse' = NoDriveResponse
    /\ LET entry == FetchEntry(origin, method)
           before == BeforeToken(bodyOk, key)
       IN  IF entry # "proceed"
           THEN /\ response' = BrokerReply(origin, method, bodyOk, key, NoTokenResponse, NoDriveResponse)
                /\ signCalls' = 0
                /\ tokenCalls' = 0
                /\ wpc' = "responded"
           ELSE IF before.threw
           THEN /\ response' = RespondError(origin, before.err)
                /\ signCalls' = before.signCalls
                /\ tokenCalls' = 0
                /\ wpc' = "responded"
           ELSE /\ response' = NoResponse
                /\ signCalls' = before.signCalls
                /\ tokenCalls' = 1
                /\ wpc' = "token"
    /\ UNCHANGED << signPayload, jwt >>
    /\ UNCHANGED pageVars
    /\ UNCHANGED taskVars

\* The token endpoint answers: getAccessToken returns (or throws), and fetch
\* goes on to the session-create request.
WorkerTokenResponse(t) ==
    /\ wpc = "token"
    /\ tokenResponse' = t
    /\ LET got == GetAccessToken(t)
       IN  IF got.threw
           THEN /\ response' = RespondError(request.origin, got.err)
                /\ accessToken' = Undefined
                /\ driveCalls' = 0
                /\ wpc' = "responded"
           ELSE /\ response' = NoResponse
                /\ accessToken' = got.token
                /\ driveCalls' = 1
                /\ wpc' = "drive"
    /\ UNCHANGED << request, env, signCalls, tokenCalls, driveResponse >>
    /\ UNCHANGED << signPayload, jwt >>
    /\ UNCHANGED pageVars
    /\ UNCHANGED taskVars

\* WorkerDriveResponse with an error body that quotes the Authorization header
\* of the request that failed.
WorkerDriveResponse_EchoToken(d) ==
    /\ wpc = "drive"
    /\ driveResponse' = d
    /\ response' = IF d.kind = "http" /\ d.status = 200
                   THEN DriveOutcome(request.origin, d)
                   ELSE RespondError(request.origin, [ msg |-> accessToken, status |-> d.status, text |-> d.text ])
    /\ wpc' = "responded"
    /\ UNCHANGED << request, env, tokenResponse, accessToken, signCalls, tokenCalls, driveCalls >>
    /\ UNCHANGED << signPayload, jwt >>
    /\ UNCHANGED pageVars
    /\ UNCHANGED taskVars

\* The storage API answers the session-create request.
WorkerDriveResponse(d) ==
    /\ wpc = "drive"
    /\ driveResponse' = d
    /\ response' = DriveOutcome(request.origin, d)
    /\ wpc' = "responded"
    /\ UNCHANGED << request, env, tokenResponse, accessToken, signCalls, tokenCalls, driveCalls >>
    /\ UNCHANGED << signPayload, jwt >>
    /\ UNCHANGED pageVars
    /\ UNCHANGED taskVars

\* The Response is delivered; the worker waits for the next request.
WorkerDone ==
    /\ wpc = "responded"
    /\ wpc' = "idle"
    /\ request' = NoRequest
    /\ env' = "valid"
    /\ tokenResponse' = NoTokenResponse
    /\ accessToken' = Undefined
    /\ response' = NoResponse
    /\ signCalls' = 0
    /\ tokenCalls' = 0
    /\ driveCalls' = 0
    /\ driveResponse' = NoDriveResponse
    /\ UNCHANGED << signPayload, jwt >>
    /\ UNCHANGED pageVars
    /\ UNCHANGED taskVars

\* ------------------------------------------------------- worker.js: sign
\* sign is called, once, with a claims object and returns the compact token.
WorkerSign(payload, signature) ==
    /\ jwt = << >>
    /\ signPayload' = payload
    /\ jwt' = Sign(payload, signature)
    /\ UNCHANGED << wpc, request, env, tokenResponse, accessToken, response, signCalls, tokenCalls,
                    driveCalls, driveResponse >>
    /\ UNCHANGED pageVars
    /\ UNCHANGED taskVars

\* ============================================================== index.html
\* ------------------------------------------------- the uploader's arithmetic
\* response.status === 308 || response.status === 200 || response.status === 201
AcceptedStatus(status) == status \in {308, 200, 201}

\* A chunk PUT whose answer enters the success branch of uploadChunks.
ChunkAccepted(r) == r.kind = "http" /\ AcceptedStatus(r.status)

\* this.bytesUploaded after an accepted chunk PUT whose Content-Range ended at end - 1.
ChunkConfirmed(r, end) ==
    IF r.status = 308 /\ HasRange(r.range) THEN ParseRangeUpper(r.range) + 1 ELSE end

\* ChunkEnd without the cut at the end of the file.
ChunkEnd_NoMin(start, size, chunk) == start + chunk

\* const end = Math.min(start + this.chunkSize, this.file.size)
ChunkEnd(start, size, chunk) == Min(start + chunk, size)

\* AcceptedRetry leaving the count as it is.
AcceptedRetry_Keep(retry) == retry

\* this.currentRetry after an accepted chunk PUT, retry being its value
\* before: this.currentRetry = 0
AcceptedRetry(retry) == 0

\* RetryExhausted with >= for >.
RetryExhausted_AtLeast(retry) == retry >= MaxRetries

\* if (this.currentRetry > this.maxRetries) throw
RetryExhausted(retry) == retry > MaxRetries

\* Reinitiated keeping the byte count of the session it replaces.
Reinitiated_KeepBytes(url, bytes) == [ uploadUrl |-> url, bytesUploaded |-> bytes ]

\* queryUploadStatus once `await this.initiateUpload()` has stored `url`, with
\* this.bytesUploaded = bytes before: this.bytesUploaded = 0.
Reinitiated(url, bytes) == [ uploadUrl |-> url, bytesUploaded |-> 0 ]

\* QueryRetry with the recovery giving the task its retries back.
QueryRetry_Reset(retry) == 0

\* this.currentRetry after queryUploadStatus, which never assigns it.
QueryRetry(retry) == retry

\* RecoveryFailed with the rejected fetch taken for an answer.
RecoveryFailed_Never(r) == FALSE

\* The status query's fetch rejects: queryUploadStatus's catch block throws the
\* recovery error.
RecoveryFailed(r) == r.kind = "throw"

\* QueryConfirmed taking the reported upper bound for the count of bytes.
QueryConfirmed_UpperAsCount(r, bytes, size) ==
    IF r.status = 308
    THEN IF HasRange(r.range) THEN ParseRangeUpper(r.range) ELSE bytes
    ELSE size

\* this.bytesUploaded after a status query answered 308, 200 or 201.
QueryConfirmed(r, bytes, size) ==
    IF r.status = 308
    THEN IF HasRange(r.range) THEN ParseRangeUpper(r.range) + 1 ELSE bytes
    ELSE size

\* error.message || "An unknown error occurred."
ErrorMessage(msg) == IF msg = "" THEN "An unknown error occurred." ELSE msg

\* -------------------------------------------------------- what the page gets
\* Answers of the session URL to a chunk PUT or a status query: the transport
\* fails, or a status with or without a Range header; the upper bound a 308
\* reports is whatever byte of the file the server names.
Statuses == {200, 201, 308, 404, 503}

StorageResponses(size) ==
    { [ kind |-> "throw", status |-> 0, range |-> NoRange ] }
    \cup { [ kind |-> "http", status |-> st, range |-> NoRange ] : st \in Statuses }
    \cup { [ kind |-> "http", status |-> 308, range |-> RangeHeader(n) ] : n \in 0..(size - 1) }

\* The origin the browser puts on the page's requests: the Apps Script sandbox
\* origin, or the origin of a page served from elsewhere.
PageOrigins ==
    { [ header |-> "value", scheme |-> "https", idLen |-> MinIdLen, idChars |-> "a-z0-9-", rest |-> "" ],
      [ header |-> "value", scheme |-> "https", idLen |-> MinIdLen, idChars |-> "a-z0-9-", rest |-> ".evil.example" ] }

\* Answers to the POST of initiateUpload: the transport fails, or whatever the
\* worker answers; location is the session the storage API would open.
InitiationReplies(location) ==
    { [ kind |-> "throw", reply |-> NoResponse ] }
    \cup { [ kind |-> "http", reply |-> BrokerReply(o, "POST", TRUE, k, t, d) ] :
             o \in PageOrigins, k \in PrivateKeys, t \in TokenResponses, d \in DriveResponses(location) }

\* response.ok
ResponseOk(status) == status >= 200 /\ status <= 299

\* initiateUpload after its fetch settled: the URL it stores, or the message it throws.
InitiateOutcome(r) ==
    IF r.kind = "throw" THEN [ ok |-> FALSE, url |-> NullUrl, msg |-> "Failed to fetch" ]
    ELSE IF ~ResponseOk(r.reply.status)
    THEN [ ok |-> FALSE, url |-> NullUrl,
           msg |-> IF r.reply.body = "json" THEN r.reply.error.msg
                   ELSE "Initiation request failed with status" ]
    ELSE IF r.reply.body # "json" THEN [ ok |-> FALSE, url |-> NullUrl, msg |-> "Unexpected end of JSON input" ]
    ELSE IF ~r.reply.success \/ r.reply.uploadUrl = NullUrl
    THEN [ ok |-> FALSE, url |-> NullUrl,
           msg |-> IF r.reply.error.msg # "" THEN r.reply.error.msg
                   ELSE "Failed to get upload URL from server." ]
    ELSE [ ok |-> TRUE, url |-> r.reply.uploadUrl, msg |-> "" ]

\* ------------------------------------------------------------------ Code.gs
\* sendEmailNotification: MailApp.sendEmail returns or throws.
SendEmailNotification(mailOk) ==
    IF mailOk THEN [ success |-> TRUE, error |-> "" ]
    ELSE [ success |-> FALSE, error |-> "Exception: mail not sent" ]

\* How google.script.run ends: the success handler with the function's return
\* value, or the failure handler.
NotificationOutcomes ==
    { [ handler |-> "success", result |-> SendEmailNotification(m) ] : m \in BOOLEAN }
    \cup { [ handler |-> "failure", result |-> [ success |-> FALSE, error |-> "call failed" ] ] }

\* SendNotification with a failure handler that rejects.
SendNotification_RejectOnFailure(outcome) ==
    IF outcome.handler = "failure" THEN "rejected" ELSE "resolved"

\* sendNotification's promise: both handlers call resolve().
SendNotification(outcome) == "resolved"

\* ------------------------------------------------------------- App's queue
\* `${file.name}-${Date.now()}`
FileId == "report.pdf-1700000000000"

\* prev.map(f => f.id === uf.id ? { ...f, ...newState } : f)
OnStateChange(files, id, newState) ==
    [ i \in 1..Len(files) |->
        IF files[i].id = id
        THEN [ files[i] EXCEPT !.status = newState.status, !.progress = newState.progress,
                               !.error = newState.error ]
        ELSE files[i] ]

\* prevFiles.filter(f => f.id !== fileIdToRemove)
RemoveFile(files, id) == SelectSeq(files, LAMBDA f : f.id # id)

NoReq == [ url |-> NullUrl, start |-> 0, end |-> 0 ]

NoResp == [ to |-> "none", kind |-> "none", status |-> 0, range |-> NoRange, ok |-> FALSE ]

NoRangeYet == << 0, 0 >>

\* No log is kept: the specification did not start one, or a chunk PUT was not
\* accepted in full.
NotLogged == [ on |-> FALSE, puts |-> << >>, progress |-> << >> ]

\* The log before the first chunk PUT.
EmptyLog == [ on |-> TRUE, puts |-> << >>, progress |-> << >> ]

\* The log once uploadChunks has gone round its loop test with
\* this.bytesUploaded = bytes: the chunk PUT it sends, if it sends one.
LogPut(log, bytes, size, chunk) ==
    IF log.on /\ bytes < size
    THEN [ log EXCEPT !.puts = Append(@, ChunkEnd(bytes, size, chunk) - bytes) ]
    ELSE log

\* The log once updateState('uploading', prog) has run.
LogProgress(log, prog) == IF log.on THEN [ log EXCEPT !.progress = Append(@, prog) ] ELSE log

\* updateState(status, progress, error) on the queue `files`.
UpdateState(files, status, prog, err) ==
    /\ progress' = prog
    /\ uploadableFiles' = OnStateChange(files, FileId, [ status |-> status, progress |-> prog, error |-> err ])
    /\ taskStatus' = status
    /\ taskError' = err

\* Fail with start carrying on after its catch block.
Fail_CarryOn(files, prog, msg) ==
    /\ UpdateState(files, "error", prog, ErrorMessage(msg))
    /\ pc' = pc
    /\ req' = req
    /\ lastSent' = "none"

\* start's catch block: updateState('error', this.progress, message); start returns.
Fail(files, prog, msg) ==
    /\ UpdateState(files, "error", prog, ErrorMessage(msg))
    /\ pc' = "done"
    /\ req' = NoReq
    /\ lastSent' = "none"

\* uploadChunks from its loop test with this.bytesUploaded = bytes: the next
\* chunk PUT goes out, or the loop ends and start calls sendNotification.
UploadChunks(bytes, url, size) ==
    IF bytes < size
    THEN /\ pc' = "put"
         /\ req' = [ url |-> url, start |-> bytes, end |-> ChunkEnd(bytes, size, chunkSize) ]
         /\ lastSent' = "put"
    ELSE /\ pc' = "notify"
         /\ req' = NoReq
         /\ lastSent' = "notify"

\* ---------------------------------------------------------------- App, start
\* handleFilesAdded with one file of `size` bytes: the file joins the queue as
\* pending and uploader.start() runs to its first await: updateState
\* ('initiating', 0), then initiateUpload's configuration test and its fetch.
HandleFilesAdded(size) ==
    /\ pc = "idle"
    /\ fileSize' = size
    /\ uploadUrl' = NullUrl
    /\ bytesUploaded' = 0
    /\ currentRetry' = 0
    /\ lastResp' = NoResp
    /\ LET queued == Append(uploadableFiles,
                            [ id |-> FileId, status |-> "pending", progress |-> 0, error |-> "" ])
           initiating == OnStateChange(queued, FileId, [ status |-> "initiating", progress |-> 0, error |-> "" ])
       IN  IF NotConfigured(INITIATION_URL)
           THEN Fail(initiating, 0, "Cloudflare Worker URL is not configured.")
           ELSE /\ UpdateState(queued, "initiating", 0, "")
                /\ pc' = "initiate"
                /\ req' = NoReq
                /\ lastSent' = "init"
    /\ UNCHANGED << INITIATION_URL, chunkSize, nextSession, discarded, failStreak, prevEnd, lastRange,
                    resetFrom, putLog >>
    /\ UNCHANGED workerVars
    /\ UNCHANGED taskVars

\* handleRemoveFile: the record leaves the queue; the uploader is not told.
HandleRemoveFile ==
    /\ pc # "idle"
    /\ \E i \in 1..Len(uploadableFiles) : uploadableFiles[i].id = FileId
    /\ uploadableFiles' = RemoveFile(uploadableFiles, FileId)
    /\ lastSent' = "none"
    /\ UNCHANGED << INITIATION_URL, chunkSize, fileSize, uploadUrl, bytesUploaded, progress, currentRetry,
                    pc, req, taskStatus, taskError, nextSession, discarded, lastResp, failStreak,
                    prevEnd, lastRange, resetFrom, putLog >>
    /\ UNCHANGED workerVars
    /\ UNCHANGED taskVars

\* start resumes after `await this.initiateUpload()`: the session URL is stored
\* and uploadChunks sends the first chunk, or initiateUpload throws into
\* start's catch.
InitiateResponse(r) ==
    /\ pc = "initiate"
    /\ lastResp' = [ to |-> "init", kind |-> r.kind, status |-> r.reply.status, range |-> NoRange,
                     ok |-> InitiateOutcome(r).ok ]
    /\ LET out == InitiateOutcome(r)
       IN  IF out.ok
           THEN /\ uploadUrl' = out.url
                /\ nextSession' = nextSession + 1
                /\ UploadChunks(bytesUploaded, out.url, fileSize)
                /\ putLog' = LogPut(putLog, bytesUploaded, fileSize, chunkSize)
                /\ UNCHANGED << uploadableFiles, progress, taskStatus, taskError >>
           ELSE /\ Fail(uploadableFiles, progress, out.msg)
                /\ UNCHANGED << uploadUrl, nextSession, putLog >>
    /\ UNCHANGED << INITIATION_URL, chunkSize, fileSize, bytesUploaded, currentRetry, discarded,
                    failStreak, prevEnd, lastRange, resetFrom >>
    /\ UNCHANGED workerVars
    /\ UNCHANGED taskVars

\* uploadChunks resumes after the chunk PUT's fetch: the success branch
\* (bytesUploaded, progress, currentRetry = 0, next loop test) or the catch
\* block (currentRetry++, the retry test, queryUploadStatus up to its fetch).
ChunkResponse(r) ==
    /\ pc = "put"
    /\ lastResp' = [ to |-> "put", kind |-> r.kind, status |-> r.status, range |-> r.range,
                     ok |-> ChunkAccepted(r) ]
    /\ IF ChunkAccepted(r)
       THEN LET bytes == ChunkConfirmed(r, req.end)
            IN  /\ bytesUploaded' = bytes
                /\ UpdateState(uploadableFiles, "uploading", RoundPercent(bytes, fileSize), "")
                /\ currentRetry' = AcceptedRetry(currentRetry)
                /\ resetFrom' = currentRetry
                /\ failStreak' = 0
                /\ prevEnd' = lastRange[2]
                /\ lastRange' = << req.start, bytes >>
                /\ UploadChunks(bytes, uploadUrl, fileSize)
                /\ putLog' = IF bytes = req.end
                             THEN LogPut(LogProgress(putLog, RoundPercent(bytes, fileSize)),
                                         bytes, fileSize, chunkSize)
                             ELSE NotLogged
       ELSE /\ currentRetry' = currentRetry + 1
            /\ failStreak' = failStreak + 1
            /\ resetFrom' = 0
            /\ putLog' = NotLogged
            /\ UNCHANGED << bytesUploaded, prevEnd, lastRange >>
            /\ IF RetryExhausted(currentRetry + 1)
               THEN Fail(uploadableFiles, progress, "Exceeded max retries. Upload failed.")
               ELSE /\ UNCHANGED << uploadableFiles, progress, taskStatus, taskError >>
                    /\ IF uploadUrl = NullUrl
                       THEN UploadChunks(bytesUploaded, uploadUrl, fileSize)
                       ELSE /\ pc' = "query"
                            /\ req' = [ url |-> uploadUrl, start |-> 0, end |-> 0 ]
                            /\ lastSent' = "query"
    /\ UNCHANGED << INITIATION_URL, chunkSize, fileSize, uploadUrl, nextSession, discarded >>
    /\ UNCHANGED workerVars
    /\ UNCHANGED taskVars

\* queryUploadStatus resumes after the status query's fetch.  308, 200 and 201
\* set bytesUploaded and uploadChunks goes round its loop; any other status
\* calls initiateUpload again; a transport failure throws the recovery error.
\* The storage API opens at most MaxSessions sessions for the task.
QueryResponse(r) ==
    /\ pc = "query"
    /\ (r.kind = "http" /\ ~AcceptedStatus(r.status)) => nextSession <= MaxSessions
    /\ lastResp' = [ to |-> "query", kind |-> r.kind, status |-> r.status, range |-> r.range,
                     ok |-> r.kind = "http" /\ AcceptedStatus(r.status) ]
    /\ IF RecoveryFailed(r)
       THEN /\ Fail(uploadableFiles, progress, "Could not recover upload status.")
            /\ UNCHANGED << bytesUploaded, prevEnd, lastRange >>
       ELSE IF AcceptedStatus(r.status)
       THEN LET bytes == QueryConfirmed(r, bytesUploaded, fileSize)
            IN  /\ bytesUploaded' = bytes
                /\ IF r.status = 308 /\ ~HasRange(r.range)
                   THEN UNCHANGED << prevEnd, lastRange >>
                   ELSE /\ prevEnd' = lastRange[2]
                        /\ lastRange' = << bytesUploaded, bytes >>
                /\ UploadChunks(bytes, uploadUrl, fileSize)
                /\ UNCHANGED << uploadableFiles, progress, taskStatus, taskError >>
       ELSE /\ UNCHANGED << bytesUploaded, prevEnd, lastRange >>
            /\ IF NotConfigured(INITIATION_URL)
               THEN Fail(uploadableFiles, progress, "Could not recover upload status.")
               ELSE /\ pc' = "reinit"
                    /\ req' = NoReq
                    /\ lastSent' = "init"
                    /\ UNCHANGED << uploadableFiles, progress, taskStatus, taskError >>
    /\ currentRetry' = QueryRetry(currentRetry)
    /\ UNCHANGED << INITIATION_URL, chunkSize, fileSize, uploadUrl, nextSession, discarded,
                    failStreak, resetFrom, putLog >>
    /\ UNCHANGED workerVars
    /\ UNCHANGED taskVars

\* queryUploadStatus resumes after `await this.initiateUpload()`: the new URL
\* replaces the old one, bytesUploaded = 0, and the loop restarts; a failed
\* initiation is caught and rethrown as the recovery error.
ReinitResponse(r) ==
    /\ pc = "reinit"
    /\ lastResp' = [ to |-> "init", kind |-> r.kind, status |-> r.reply.status, range |-> NoRange,
                     ok |-> InitiateOutcome(r).ok ]
    /\ LET out == InitiateOutcome(r)
       IN  IF out.ok
           THEN /\ uploadUrl' = Reinitiated(out.url, bytesUploaded).uploadUrl
                /\ discarded' = discarded \cup { uploadUrl }
                /\ nextSession' = nextSession + 1
                /\ bytesUploaded' = Reinitiated(out.url, bytesUploaded).bytesUploaded
                /\ prevEnd' = 0
                /\ lastRange' = NoRangeYet
                /\ UploadChunks(Reinitiated(out.url, bytesUploaded).bytesUploaded,
                                Reinitiated(out.url, bytesUploaded).uploadUrl, fileSize)
                /\ UNCHANGED << uploadableFiles, progress, taskStatus, taskError >>
           ELSE /\ Fail(uploadableFiles, progress, "Could not recover upload status.")
                /\ UNCHANGED << uploadUrl, discarded, nextSession, bytesUploaded, prevEnd, lastRange >>
    /\ UNCHANGED << INITIATION_URL, chunkSize, fileSize, currentRetry, failStreak, resetFrom, putLog >>
    /\ UNCHANGED workerVars
    /\ UNCHANGED taskVars

\* start resumes after `await this.sendNotification()`: updateState('success', 100).
\* A rejected promise would land in start's catch.
NotifyResponse(outcome) ==
    /\ pc = "notify"
    /\ lastResp' = [ to |-> "notify", kind |-> outcome.handler, status |-> 0, range |-> NoRange,
                     ok |-> outcome.result.success ]
    /\ IF SendNotification(outcome) = "resolved"
       THEN UpdateState(uploadableFiles, "success", 100, "")
       ELSE UpdateState(uploadableFiles, "error", progress, ErrorMessage(outcome.result.error))
    /\ pc' = "done"
    /\ req' = NoReq
    /\ lastSent' = "none"
    /\ UNCHANGED << INITIATION_URL, chunkSize, fileSize, uploadUrl, bytesUploaded, currentRetry,
                    nextSession, discarded, failStreak, prevEnd, lastRange, resetFrom, putLog >>
    /\ UNCHANGED workerVars
    /\ UNCHANGED taskVars

\* ------------------------------------------------ App with many uploaders
\* The names of the files the user drops.
FileNames == {"report.pdf", "photo.jpg"}

\* `${file.name}-${Date.now()}`, the name and the time kept apart.
TaskFileId(name, time) == << name, time >>

\* The n-th File object handed to the page.
NewFile(name, n) == [ name |-> name, size |-> TaskFileSize, object |-> n ]

\* { id: `${file.name}-${Date.now()}`, file, status: 'pending', progress: 0, error: null }
NewUploadableFile(file, time) ==
    [ id |-> TaskFileId(file.name, time), file |-> file, status |-> "pending", progress |-> 0,
      error |-> "" ]

\* new ResumableUploader(uf.file, onStateChange): the constructor's fields and
\* the uf.id that onStateChange closes over; start has not run yet.
NewUploader(uf) ==
    [ id |-> uf.id, file |-> uf.file, uploadUrl |-> NullUrl, bytesUploaded |-> 0, progress |-> 0,
      currentRetry |-> 0, pc |-> "start" ]

\* A step of an uploader that calls updateState with nothing.
NoState == [ status |-> "", progress |-> 0, error |-> "" ]

\* uploadChunks' loop test on uploader u: the next chunk PUT, or the loop ends
\* and start calls sendNotification; state is what the step has published.
TaskLoop(u, state) ==
    IF u.bytesUploaded < u.file.size
    THEN [ u |-> [ u EXCEPT !.pc = "put" ], state |-> state, send |-> "put" ]
    ELSE [ u |-> [ u EXCEPT !.pc = "notify" ], state |-> state, send |-> "notify" ]

\* start's catch block on uploader u.
TaskFail(u, msg) ==
    [ u |-> [ u EXCEPT !.pc = "done" ],
      state |-> [ status |-> "error", progress |-> u.progress, error |-> ErrorMessage(msg) ],
      send |-> "none" ]

\* uploader.start() to its first await, on a configured page.
TaskStart(u) ==
    [ u |-> [ u EXCEPT !.pc = "initiate", !.progress = 0 ],
      state |-> [ status |-> "initiating", progress |-> 0, error |-> "" ],
      send |-> "init" ]

\* start resumes after `await this.initiateUpload()`.
TaskAfterInitiate(u, r) ==
    LET out == InitiateOutcome(r)
    IN  IF out.ok THEN TaskLoop([ u EXCEPT !.uploadUrl = out.url ], NoState) ELSE TaskFail(u, out.msg)

\* uploadChunks resumes after the chunk PUT's fetch.
TaskAfterChunk(u, r) ==
    IF ChunkAccepted(r)
    THEN LET bytes == ChunkConfirmed(r, ChunkEnd(u.bytesUploaded, u.file.size, chunkSize))
             prog == RoundPercent(bytes, u.file.size)
         IN  TaskLoop([ u EXCEPT !.bytesUploaded = bytes, !.progress = prog,
                                 !.currentRetry = AcceptedRetry(@) ],
                      [ status |-> "uploading", progress |-> prog, error |-> "" ])
    ELSE LET failed == [ u EXCEPT !.currentRetry = @ + 1 ]
         IN  IF RetryExhausted(failed.currentRetry)
             THEN TaskFail(failed, "Exceeded max retries. Upload failed.")
             ELSE IF failed.uploadUrl = NullUrl
             THEN TaskLoop(failed, NoState)
             ELSE [ u |-> [ failed EXCEPT !.pc = "query" ], state |-> NoState, send |-> "query" ]

\* queryUploadStatus resumes after the status query's fetch.
TaskAfterQuery(u, r) ==
    IF RecoveryFailed(r)
    THEN TaskFail(u, "Could not recover upload status.")
    ELSE IF AcceptedStatus(r.status)
    THEN TaskLoop([ u EXCEPT !.bytesUploaded = QueryConfirmed(r, @, u.file.size) ], NoState)
    ELSE [ u |-> [ u EXCEPT !.pc = "reinit" ], state |-> NoState, send |-> "init" ]

\* queryUploadStatus resumes after `await this.initiateUpload()`.
TaskAfterReinit(u, r) ==
    LET out == InitiateOutcome(r)
    IN  IF out.ok
        THEN TaskLoop([ u EXCEPT !.uploadUrl = Reinitiated(out.url, u.bytesUploaded).uploadUrl,
                                 !.bytesUploaded = Reinitiated(out.url, u.bytesUploaded).bytesUploaded ],
                      NoState)
        ELSE TaskFail(u, "Could not recover upload status.")

\* start resumes after `await this.sendNotification()`.
TaskAfterNotify(u, outcome) ==
    IF SendNotification(outcome) = "resolved"
    THEN [ u |-> [ u EXCEPT !.pc = "done", !.progress = 100 ],
           state |-> [ status |-> "success", progress |-> 100, error |-> "" ],
           send |-> "none" ]
    ELSE TaskFail(u, outcome.result.error)

\* The queue once uploader u has called this.onStateChange(state), if it has.
Publish(files, u, state) == IF state = NoState THEN files ELSE OnStateChange(files, u.id, state)

\* The queue once the first n of the uploaders just started have published.
RECURSIVE PublishAll(_, _, _)
PublishAll(files, started, n) ==
    IF n = 0 THEN files
    ELSE Publish(PublishAll(files, started, n - 1), started[n].u, started[n].state)

\* A request of uploader k: "init", "put", "query" or "notify".
Request(k, kind) == [ task |-> k, kind |-> kind ]

\* The requests outstanding once uploader k has sent what its step sends.
Sent(net, k, send) == IF send = "none" THEN net ELSE net \cup { Request(k, send) }

\* Settle with the settled request still counted as outstanding.
Settle_Outstanding(net, m) == net

\* The requests outstanding once request m has settled and its await returned.
Settle(net, m) == net \ { m }

\* The times Date.now() returns to the n calls of one handleFilesAdded.
BatchTimes(n, now) ==
    { t \in [ 1..n -> {now, now + 1} ] : \A i \in 1..(n - 1) : t[i] <= t[i + 1] }

\* The files of one drop, when the page has room for n more uploaders.
Batches(n) == UNION { [ 1..len -> FileNames ] : len \in 1..n }

\* handleFilesAdded(newFiles): the files join the queue as pending and, for
\* each, an uploader is built and started: it publishes 'initiating' and sends
\* its initiation.
HandleFilesAddedBatch(names, times) ==
    /\ Len(uploaders) + Len(names) <= MaxTasks
    /\ LET first == Len(uploaders)
           newFiles == [ i \in 1..Len(names) |-> NewFile(names[i], first + i) ]
           newUploadableFiles == [ i \in 1..Len(names) |-> NewUploadableFile(newFiles[i], times[i]) ]
           started == [ i \in 1..Len(names) |-> TaskStart(NewUploader(newUploadableFiles[i])) ]
       IN  /\ uploadableFiles' = PublishAll(uploadableFiles \o newUploadableFiles, started, Len(names))
           /\ uploaders' = uploaders \o [ i \in 1..Len(names) |-> started[i].u ]
           /\ network' = network \cup { Request(first + i, started[i].send) : i \in 1..Len(names) }
    /\ clock' = times[Len(times)] + 1
    /\ UNCHANGED << INITIATION_URL, chunkSize, fileSize, uploadUrl, bytesUploaded, progress, currentRetry,
                    pc, req, taskStatus, taskError, nextSession, discarded, lastResp, lastSent,
                    failStreak, prevEnd, lastRange, resetFrom, putLog >>
    /\ UNCHANGED workerVars

\* Uploader k resumes after request m settled: out is what its method does
\* up to its next await.
TaskResume(k, m, out) ==
    /\ uploaders' = [ uploaders EXCEPT ![k] = out.u ]
    /\ uploadableFiles' = Publish(uploadableFiles, uploaders[k], out.state)
    /\ network' = Sent(Settle(network, m), k, out.send)
    /\ UNCHANGED << INITIATION_URL, chunkSize, fileSize, uploadUrl, bytesUploaded, progress, currentRetry,
                    pc, req, taskStatus, taskError, nextSession, discarded, lastResp, lastSent,
                    failStreak, prevEnd, lastRange, resetFrom, putLog, clock >>
    /\ UNCHANGED workerVars

\* Request `kind` of uploader k, suspended at `at`, is outstanding.
Awaiting(k, kind, at) == Request(k, kind) \in network /\ uploaders[k].pc = at

TaskInitiateResponse(k, r) ==
    /\ Awaiting(k, "init", "initiate")
    /\ TaskResume(k, Request(k, "init"), TaskAfterInitiate(uploaders[k], r))

TaskChunkResponse(k, r) ==
    /\ Awaiting(k, "put", "put")
    /\ TaskResume(k, Request(k, "put"), TaskAfterChunk(uploaders[k], r))

TaskQueryResponse(k, r) ==
    /\ Awaiting(k, "query", "query")
    /\ TaskResume(k, Request(k, "query"), TaskAfterQuery(uploaders[k], r))

TaskReinitResponse(k, r) ==
    /\ Awaiting(k, "init", "reinit")
    /\ TaskResume(k, Request(k, "init"), TaskAfterReinit(uploaders[k], r))

TaskNotifyResponse(k, outcome) ==
    /\ Awaiting(k, "notify", "notify")
    /\ TaskResume(k, Request(k, "notify"), TaskAfterNotify(uploaders[k], outcome))

\* ------------------------------------------------------------ specifications
PageIdle ==
    /\ uploadableFiles = << >>
    /\ fileSize = 0
    /\ uploadUrl = NullUrl
    /\ bytesUploaded = 0
    /\ progress = 0
    /\ currentRetry = 0
    /\ pc = "idle"
    /\ req = NoReq
    /\ taskStatus = "none"
    /\ taskError = ""
    /\ nextSession = 1
    /\ discarded = {}
    /\ lastResp = NoResp
    /\ lastSent = "none"
    /\ failStreak = 0
    /\ prevEnd = 0
    /\ lastRange = NoRangeYet
    /\ resetFrom = 0
    /\ uploaders = << >>
    /\ network = {}
    /\ clock = 0

\* The page as deployed, before a file is dropped.
Init ==
    /\ INITIATION_URL \in InitiationUrls
    /\ chunkSize \in 1..MaxChunk
    /\ PageIdle
    /\ putLog = NotLogged
    /\ WorkerIdle

Next ==
    \/ \E size \in 0..MaxSize : HandleFilesAdded(size)
    \/ HandleRemoveFile
    \/ \E r \in InitiationReplies(nextSession) : InitiateResponse(r)
    \/ \E r \in StorageResponses(fileSize) : ChunkResponse(r)
    \/ \E r \in StorageResponses(fileSize) : QueryResponse(r)
    \/ \E r \in InitiationReplies(nextSession) : ReinitResponse(r)
    \/ \E outcome \in NotificationOutcomes : NotifyResponse(outcome)

Spec == Init /\ [][Next]_vars

\* The worker alone, answering one request after another.
InitBroker ==
    /\ INITIATION_URL = << >>
    /\ chunkSize = 1
    /\ PageIdle
    /\ putLog = NotLogged
    /\ WorkerIdle

NextBroker ==
    \/ \E origin \in Origins, method \in Methods, bodyOk \in BOOLEAN, key \in PrivateKeys :
           WorkerFetch(origin, method, bodyOk, key)
    \/ \E t \in TokenResponses : WorkerTokenResponse(t)
    \/ \E d \in DriveResponses(1) : WorkerDriveResponse(d)
    \/ WorkerDone

SpecBroker == InitBroker /\ [][NextBroker]_vars

\* The signer alone, called with any of the claims objects.
NextSign == \E payload \in ClaimsObjects, signature \in Signatures : WorkerSign(payload, signature)

SpecSign == InitBroker /\ [][NextSign]_vars

\* A storage API that accepts every chunk in full: 308 with or without the
\* Range of the bytes received, or 200 or 201.
AcceptingResponses(end) ==
    { [ kind |-> "http", status |-> 308, range |-> NoRange ],
      [ kind |-> "http", status |-> 308, range |-> RangeHeader(end - 1) ],
      [ kind |-> "http", status |-> 200, range |-> NoRange ],
      [ kind |-> "http", status |-> 201, range |-> NoRange ] }

\* One uploader on a configured page whose initiation succeeds and whose every
\* chunk PUT is accepted in full; the log of its chunk PUTs is kept.
InitAccept ==
    /\ INITIATION_URL = << "https://worker.example.workers.dev" >>
    /\ chunkSize \in 1..MaxAcceptChunk
    /\ PageIdle
    /\ putLog = EmptyLog
    /\ WorkerIdle

NextAccept ==
    \/ \E size \in 1..MaxAcceptSize : HandleFilesAdded(size)
    \/ \E r \in { i \in InitiationReplies(nextSession) : InitiateOutcome(i).ok } : InitiateResponse(r)
    \/ \E r \in AcceptingResponses(req.end) : ChunkResponse(r)
    \/ \E outcome \in NotificationOutcomes : NotifyResponse(outcome)

SpecAccept == InitAccept /\ [][NextAccept]_vars

\* A storage API that never answers 200 or 201: the transport fails, or 308
\* with or without a Range header, 404 or 503.
PendingResponses(size) == { r \in StorageResponses(size) : r.status \notin {200, 201} }

\* One uploader at a time, for files of at least one byte, against a storage
\* API that never answers 200 or 201.
NextPending ==
    \/ \E size \in 1..MaxSize : HandleFilesAdded(size)
    \/ HandleRemoveFile
    \/ \E r \in InitiationReplies(nextSession) : InitiateResponse(r)
    \/ \E r \in PendingResponses(fileSize) : ChunkResponse(r)
    \/ \E r \in PendingResponses(fileSize) : QueryResponse(r)
    \/ \E r \in InitiationReplies(nextSession) : ReinitResponse(r)
    \/ \E outcome \in NotificationOutcomes : NotifyResponse(outcome)

SpecPending == Init /\ [][NextPending]_vars

\* A request of the uploader settles: its fetch or its google.script.run call
\* returns, with whatever answer, and the method that awaited it resumes.
RequestReturns ==
    \/ \E r \in InitiationReplies(nextSession) : InitiateResponse(r)
    \/ \E r \in StorageResponses(fileSize) : ChunkResponse(r)
    \/ \E r \in StorageResponses(fileSize) : QueryResponse(r)
    \/ \E r \in InitiationReplies(nextSession) : ReinitResponse(r)
    \/ \E outcome \in NotificationOutcomes : NotifyResponse(outcome)

NextReturns ==
    \/ \E size \in 0..MaxSize : HandleFilesAdded(size)
    \/ RequestReturns

\* One uploader whose every request eventually returns.
SpecReturns == Init /\ [][NextReturns]_vars /\ WF_vars(RequestReturns)

\* What the worker and the session URL answer to the uploaders' requests.
TaskInitiationReplies == InitiationReplies(1)

TaskStorageResponses == StorageResponses(TaskFileSize)

\* The page with up to MaxTasks uploaders running at once, each file of
\* TaskFileSize bytes sent in chunks of one byte; no row is removed.
InitTasks ==
    /\ INITIATION_URL = << "https://worker.example.workers.dev" >>
    /\ chunkSize = 1
    /\ PageIdle
    /\ putLog = NotLogged
    /\ WorkerIdle

NextTasks ==
    \/ \E names \in Batches(MaxTasks - Len(uploaders)) :
           \E times \in BatchTimes(Len(names), clock) : HandleFilesAddedBatch(names, times)
    \/ \E k \in 1..Len(uploaders), r \in TaskInitiationReplies : TaskInitiateResponse(k, r)
    \/ \E k \in 1..Len(uploaders), r \in TaskStorageResponses : TaskChunkResponse(k, r)
    \/ \E k \in 1..Len(uploaders), r \in TaskStorageResponses : TaskQueryResponse(k, r)
    \/ \E k \in 1..Len(uploaders), r \in TaskInitiationReplies : TaskReinitResponse(k, r)
    \/ \E k \in 1..Len(uploaders), outcome \in NotificationOutcomes : TaskNotifyResponse(k, outcome)

SpecTasks == InitTasks /\ [][NextTasks]_vars

\* ================================================================ properties
\* The uploader has a request in flight.
InFlight == pc \in {"initiate", "put", "query", "reinit", "notify"}

\* C1: a request whose Origin header is absent or fails the allow-list
\* pattern, whatever its method (OPTIONS included), is answered with the 403
\* rejection, and the worker calls neither sign nor the token endpoint nor the
\* storage API's session-create for it.
C1_RejectedOriginDoesNoWork ==
    (wpc # "idle" /\ ~IsOriginAllowed(request.origin)) =>
        /\ wpc = "responded"
        /\ response = Respond403
        /\ signCalls = 0
        /\ tokenCalls = 0
        /\ driveCalls = 0

\* C1 witness: a well-formed POST with a usable key from an origin that only
\* fails the pattern has been answered.
C1_Witness ==
    /\ wpc = "responded"
    /\ request.origin.header = "value"
    /\ ~IsOriginAllowed(request.origin)
    /\ request.method = "POST"
    /\ request.bodyOk
    /\ env = "valid"
    /\ response.status = 403

\* The token endpoint answered this request with a non-success status and no
\* access_token.
TokenExchangeFailed ==
    /\ tokenResponse.kind = "http"
    /\ ~ResponseOk(tokenResponse.status)
    /\ tokenResponse.access_token = Undefined

\* C10: when the token exchange fails, the request ends in an error for the
\* caller (success:false); it is never answered success:true with an
\* uploadUrl, whatever the storage API answers.
C10_TokenFailureIsAnError ==
    (wpc = "responded" /\ TokenExchangeFailed) =>
        /\ ~response.success
        /\ response.uploadUrl = NullUrl
        /\ response.status = 500

\* The keys that sign.
SigningKeys == { key \in PrivateKeys : ~BeforeToken(TRUE, key).threw }

\* The texts of a response that the caller can read.
ResponseTexts(r) == { r.error.msg, r.error.text, r.acam, r.acah }

\* The token endpoint's answer with another bearer token in it, if it held one.
WithToken(t, tok) == IF t.access_token \in AccessTokens THEN [ t EXCEPT !.access_token = tok ] ELSE t

\* C11: no response of the worker holds the bearer token or the private key,
\* and a request handled with any other signing key and any other bearer
\* token, the storage API answering the same, gets the very same response.
C11_SecretsDoNotReachCaller ==
    wpc = "responded" =>
        /\ ResponseTexts(response) \cap (AccessTokens \cup PrivateKeys) = {}
        /\ env \in SigningKeys =>
              \A key \in SigningKeys, tok \in AccessTokens :
                  response = BrokerReply(request.origin, request.method, request.bodyOk, key,
                                         WithToken(tokenResponse, tok), driveResponse)

\* C11 witness: a request signed with the second key and sent on with the
\* second token has been answered with the storage API's refusal.
C11_Witness ==
    /\ wpc = "responded"
    /\ env = "rotated"
    /\ accessToken = "ya29.other"
    /\ driveResponse.status = 401
    /\ response.error.text = "Invalid Credentials"
    /\ response # BrokerReply(request.origin, request.method, request.bodyOk, "garbage", tokenResponse, driveResponse)

\* The characters base64url must not leave in a part: '=', '+', '/'.
NotUrlSafe == {61, 43, 47}

\* str holds the character c.
Holds(str, c) == \E j \in 1..Len(str) : str[j] = c

\* C12: the token sign returns has three dot-separated parts; base64url-decoding
\* and parsing the first gives the header { alg: RS256, typ: JWT }, the second
\* gives exactly the claims object sign was called with, and no part holds
\* '=', '+' or '/'.
C12_TokenDecodesToClaims ==
    jwt # << >> =>
        LET parts == SplitDots(jwt)
        IN  /\ Len(parts) = 3
            /\ JsonParse(Base64UrlDecode(parts[1])) = JwtHeader
            /\ JsonParse(Base64UrlDecode(parts[2])) = signPayload
            /\ \A i \in 1..Len(parts) : \A c \in NotUrlSafe : ~Holds(parts[i], c)

\* C12 witness: sign has returned a token for claims with a '"' in iss whose
\* btoa text holds a '/' and padding, under a signature whose btoa text holds
\* '+' and '/'.
C12_Witness ==
    /\ jwt # << >>
    /\ signPayload \in ClaimsObjects
    /\ Holds(signPayload[1].str, 34)
    /\ Holds(Btoa(JsonStringify(signPayload)), 47)
    /\ Holds(Btoa(JsonStringify(signPayload)), 61)
    /\ Holds(SplitDots(jwt)[2], 95)
    /\ Holds(SplitDots(jwt)[3], 45)
    /\ Holds(SplitDots(jwt)[3], 95)

\* Math.ceil(a / b)
CeilDiv(a, b) == (a + b - 1) \div b

\* The chunk PUTs of a file of `size` bytes cut into chunks of `chunk` bytes:
\* all of size chunk, but the last, which takes what is left.
ExpectedPuts(size, chunk) ==
    [ i \in 1..CeilDiv(size, chunk) |-> IF i * chunk <= size THEN chunk ELSE size - (i - 1) * chunk ]

\* The progress after each of them: round(100 * bytes confirmed / size).
ExpectedProgress(size, chunk) ==
    [ i \in 1..CeilDiv(size, chunk) |-> RoundPercent(Min(i * chunk, size), size) ]

\* C13: when the storage API accepts every chunk, the task sends exactly
\* ceil(size / chunk) chunk PUTs, each of chunk bytes but a possibly smaller
\* last one, publishes round(100 * bytesUploaded / size) after each, and ends
\* with status success; 25 bytes in chunks of 10 make three PUTs and the
\* progress values 40, 80, 100.
C13_AcceptedRunPutsAndProgress ==
    /\ putLog.on
    /\ putLog.puts = SubSeq(ExpectedPuts(fileSize, chunkSize), 1, Len(putLog.puts))
    /\ putLog.progress = SubSeq(ExpectedProgress(fileSize, chunkSize), 1, Len(putLog.progress))
    /\ pc = "put" => Len(putLog.puts) = Len(putLog.progress) + 1
    /\ pc \in {"notify", "done"} =>
          /\ Len(putLog.puts) = CeilDiv(fileSize, chunkSize)
          /\ Len(putLog.progress) = CeilDiv(fileSize, chunkSize)
          /\ bytesUploaded = fileSize
    /\ pc = "done" => taskStatus = "success"
    /\ (pc = "done" /\ fileSize = 25 /\ chunkSize = 10) =>
          (putLog.puts = << 10, 10, 5 >> /\ putLog.progress = << 40, 80, 100 >>)

\* C13 witness: 25 bytes in chunks of 10 have been uploaded with every chunk
\* accepted.
C13_Witness ==
    /\ pc = "done"
    /\ taskStatus = "success"
    /\ fileSize = 25
    /\ chunkSize = 10
    /\ putLog.on
    /\ Len(putLog.puts) = 3

\* A step that consumes the accepted answer to a chunk PUT: uploadChunks goes
\* on to its next PUT or start to the notification.
AcceptedChunkStep == pc = "put" /\ lastResp'.to = "put" /\ lastResp'.ok /\ lastSent' \in {"put", "notify"}

\* A step that consumes the answer to a chunk PUT that failed.
FailedChunkStep == pc = "put" /\ lastResp'.to = "put" /\ ~lastResp'.ok

\* C14: every accepted chunk response sets currentRetry to 0, from whatever
\* count of up to MaxRetries failures in a row it had reached, so currentRetry
\* is always the number of failures since the last accepted chunk and failures
\* separated by an accepted chunk do not add up; a task that ends in success
\* has all its bytes confirmed.
C14_AcceptedChunkResetsRetry ==
    /\ [](/\ currentRetry = failStreak
          /\ resetFrom <= MaxRetries
          /\ taskStatus = "success" => bytesUploaded >= fileSize)
    /\ [][ AcceptedChunkStep => (currentRetry' = 0 /\ resetFrom' = currentRetry) ]_vars

\* C14 witness: the last chunk failed twice, its third attempt was accepted
\* with currentRetry at 2, and the task has ended in success with currentRetry 0.
C14_Witness ==
    /\ resetFrom = 2
    /\ currentRetry = 0
    /\ pc = "done"
    /\ taskStatus = "success"
    /\ bytesUploaded = fileSize
    /\ lastRange[2] = fileSize
    /\ fileSize > chunkSize

\* C15: on a page whose INITIATION_URL is empty or still the shipped
\* placeholder, a task that has been started has ended in error with the
\* configuration message, without a request sent or a response consumed.
C15_UnconfiguredFailsBeforeNetwork ==
    (pc # "idle" /\ INITIATION_URL \in { << >>, ShippedPlaceholder }) =>
        /\ pc = "done"
        /\ taskStatus = "error"
        /\ taskError = "Cloudflare Worker URL is not configured."
        /\ lastResp = NoResp
        /\ uploadUrl = NullUrl

\* C16: a response that carries Access-Control-Allow-Origin carries the origin
\* of the request it answers, and that origin passed the allow-list; an
\* OPTIONS request from an allowed origin is answered with that origin, the
\* methods 'POST, OPTIONS' and the headers 'Content-Type', and neither sign nor
\* the token endpoint nor the storage API is called for it.
C16_CorsEchoesAllowedOrigin ==
    wpc = "responded" =>
        /\ response.acao # {} => (response.acao = { request.origin } /\ IsOriginAllowed(request.origin))
        /\ (request.method = "OPTIONS" /\ IsOriginAllowed(request.origin)) =>
              /\ response.acao = { request.origin }
              /\ response.acam = "POST, OPTIONS"
              /\ response.acah = "Content-Type"
              /\ response.body = "null"
              /\ signCalls = 0
              /\ tokenCalls = 0
              /\ driveCalls = 0

\* C16 witness: a preflight from an allowed origin has been answered.
C16_Witness ==
    /\ wpc = "responded"
    /\ request.method = "OPTIONS"
    /\ IsOriginAllowed(request.origin)
    /\ response.acao = { request.origin }
    /\ response.status = 200

\* C17: the worker answers success:true only when the storage API's
\* session-create call returned success, and uploadUrl is then the Location
\* header of that answer, unchanged and present; every other status of the
\* storage API is answered success:false with an error that carries the remote
\* status and body.
C17_SuccessCarriesSessionUrl ==
    wpc = "responded" =>
        /\ response.success =>
              /\ driveResponse.kind = "http"
              /\ ResponseOk(driveResponse.status)
              /\ response.uploadUrl = driveResponse.location
              /\ response.uploadUrl # NullUrl
        /\ (driveResponse.kind = "http" /\ ~ResponseOk(driveResponse.status)) =>
              /\ ~response.success
              /\ response.uploadUrl = NullUrl
              /\ response.error.msg = "Google API Error"
              /\ response.error.status = driveResponse.status
              /\ response.error.text = driveResponse.text

\* C18: a failed chunk PUT adds one to currentRetry.  If the new count is
\* above MaxRetries the task ends in error with the retry-exhausted message
\* and sends nothing, no status query either; otherwise one status query goes
\* to the session URL, and no second one follows before its answer has led to
\* the next chunk PUT.  Status queries are sent by nothing else.
C18_FailedChunkQueriesOnceOrEnds ==
    [][ /\ FailedChunkStep =>
             /\ currentRetry' = currentRetry + 1
             /\ IF currentRetry + 1 > MaxRetries
                THEN /\ pc' = "done"
                     /\ taskStatus' = "error"
                     /\ taskError' = "Exceeded max retries. Upload failed."
                     /\ lastSent' = "none"
                ELSE /\ pc' = "query"
                     /\ lastSent' = "query"
                     /\ req'.url = uploadUrl
        /\ pc = "query" => lastSent' # "query"
        /\ lastSent' = "query" => FailedChunkStep ]_vars

\* C18 witness: the chunk PUT has failed for the MaxRetries-th time in a row
\* and the status query is in flight.
C18_Witness ==
    /\ pc = "query"
    /\ lastSent = "query"
    /\ lastResp.to = "put"
    /\ ~lastResp.ok
    /\ currentRetry = MaxRetries
    /\ req.url = uploadUrl

\* A step that consumes the transport failure of a status query.
QueryThrowStep == pc = "query" /\ lastResp'.to = "query" /\ lastResp'.kind = "throw"

\* C19: when the status query fails at transport level the task ends at once
\* in error with the recovery message, whatever currentRetry is, and a task
\* that has ended sends nothing more: no status query, no chunk PUT, no
\* initiation.
C19_QueryTransportFailureEndsTask ==
    [][ /\ QueryThrowStep =>
             /\ pc' = "done"
             /\ taskStatus' = "error"
             /\ taskError' = "Could not recover upload status."
             /\ lastSent' = "none"
             /\ req' = NoReq
             /\ currentRetry' = currentRetry
             /\ uploadUrl' = uploadUrl
        /\ pc = "done" => (pc' = "done" /\ lastSent' = "none" /\ req' = NoReq) ]_vars

\* C19 witness: the first status query of a task failed at transport level,
\* with four retries still left, and the task has ended.
C19_Witness ==
    /\ pc = "done"
    /\ lastResp.to = "query"
    /\ lastResp.kind = "throw"
    /\ currentRetry = 1
    /\ taskStatus = "error"
    /\ taskError = "Could not recover upload status."

\* A step that consumes a status query's answer 308 with a Range header.
QueryRangeStep ==
    /\ pc = "query"
    /\ lastResp'.to = "query"
    /\ lastResp'.kind = "http"
    /\ lastResp'.status = 308
    /\ HasRange(lastResp'.range)

\* C20: when a status query is answered 308 with Range upper bound n,
\* bytesUploaded becomes n + 1, the worker is not called and the session URL
\* stays; the next chunk PUT goes to that URL and starts at byte n + 1, and
\* with n + 1 bytes making the whole file there is none and the notification
\* is sent.
C20_RecoveryResumesAfterRange ==
    [][ QueryRangeStep =>
            /\ bytesUploaded' = lastResp'.range[2] + 1
            /\ uploadUrl' = uploadUrl
            /\ nextSession' = nextSession
            /\ lastSent' \in {"put", "notify"}
            /\ IF lastResp'.range[2] + 1 < fileSize
               THEN /\ pc' = "put"
                    /\ req'.url = uploadUrl
                    /\ req'.start = lastResp'.range[2] + 1
                    /\ req'.end = Min(lastResp'.range[2] + 1 + chunkSize, fileSize)
               ELSE pc' = "notify" ]_vars

\* C20 witness: a failed chunk PUT of the first session was followed by a
\* status query answered 308 with a Range, and the chunk after the reported
\* upper bound is in flight.
C20_Witness ==
    /\ pc = "put"
    /\ lastResp.to = "query"
    /\ lastResp.status = 308
    /\ HasRange(lastResp.range)
    /\ bytesUploaded = lastResp.range[2] + 1
    /\ req.start = bytesUploaded
    /\ req.url = uploadUrl
    /\ uploadUrl = 1
    /\ discarded = {}
    /\ currentRetry = 1

\* C2: within one upload session (uploadUrl unchanged), a step that consumes
\* the answer to a chunk PUT or to a status query never lowers bytesUploaded,
\* whatever Range upper bound the answer reports.
C2_BytesNeverDecrease ==
    [][ (pc \in {"put", "query"} /\ uploadUrl' = uploadUrl) => bytesUploaded' >= bytesUploaded ]_vars

\* C3: the ranges confirmed within one session tile [0, fileSize): each starts
\* where the one before ended (the first at 0), none runs backwards into bytes
\* confirmed before or past the end of the file, and on success the last one
\* ends at fileSize.
C3_ConfirmedRangesTile ==
    /\ lastRange[1] = prevEnd
    /\ lastRange[1] <= lastRange[2]
    /\ lastRange[2] <= fileSize
    /\ taskStatus = "success" => lastRange[2] = fileSize

\* C4: as claimed, after MaxRetries chunk PUT failures in a row the task is in
\* terminal error and sends nothing more.
C4_TerminalAfterMaxRetries ==
    failStreak = MaxRetries => (pc = "done" /\ taskStatus = "error" /\ lastSent = "none")

\* C4: as amended, the task survives MaxRetries chunk PUT failures in a row and
\* is in terminal error, with the retry-exhausted message, exactly after
\* MaxRetries + 1 of them; a task that has returned sends nothing more.
C4_TerminalAfterMaxRetriesPlusOne ==
    /\ [](/\ failStreak <= MaxRetries + 1
          /\ failStreak = MaxRetries + 1 =>
                (pc = "done" /\ taskStatus = "error" /\ lastSent = "none"
                 /\ taskError = "Exceeded max retries. Upload failed.")
          /\ taskError = "Exceeded max retries. Upload failed." => failStreak = MaxRetries + 1)
    /\ [][ pc = "done" => (pc' = "done" /\ lastSent' = "none" /\ req' = NoReq) ]_vars

\* C4 witness: the task has ended on its (MaxRetries + 1)-th failure in a row.
C4_Witness ==
    /\ failStreak = MaxRetries + 1
    /\ pc = "done"
    /\ taskError = "Exceeded max retries. Upload failed."

\* A step that consumes a status query's answer with a status other than 308, 200, 201.
DeadSessionStep ==
    /\ pc = "query"
    /\ pc' # "query"
    /\ lastResp'.kind = "http"
    /\ ~AcceptedStatus(lastResp'.status)

\* A step that consumes the answer to the initiation a dead session caused.
ReinitStep == pc = "reinit" /\ pc' # "reinit"

\* C5: as claimed, a dead-session answer makes the uploader call initiate once
\* more, and when that call resolves bytesUploaded is 0 and the first chunk,
\* from byte 0, goes to the newly returned URL, the old one being dropped.
C5_DeadSessionRestartsFromZero ==
    [][ /\ DeadSessionStep => (pc' = "reinit" /\ lastSent' = "init")
        /\ ReinitStep => /\ bytesUploaded' = 0
                         /\ uploadUrl' # uploadUrl
                         /\ pc' = "put"
                         /\ req'.start = 0
                         /\ req'.url = uploadUrl' ]_vars

\* C5: as amended, a dead-session answer makes the uploader call initiate once
\* more.  If that initiation succeeds, bytesUploaded is 0, the old URL is
\* dropped and the first chunk, from byte 0, goes to the new URL; if it fails,
\* the task ends in error with the recovery message, bytesUploaded unchanged,
\* nothing sent.  Every chunk PUT and status query goes to the URL returned
\* last, never to a dropped one.
C5_DeadSessionRestartsOrFails ==
    [][ /\ DeadSessionStep => (pc' = "reinit" /\ lastSent' = "init")
        /\ ReinitStep =>
             IF lastResp'.ok
             THEN /\ bytesUploaded' = 0
                  /\ uploadUrl' # uploadUrl
                  /\ uploadUrl \in discarded'
                  /\ pc' = "put"
                  /\ req'.start = 0
                  /\ req'.url = uploadUrl'
             ELSE /\ pc' = "done"
                  /\ taskStatus' = "error"
                  /\ taskError' = "Could not recover upload status."
                  /\ lastSent' = "none"
                  /\ bytesUploaded' = bytesUploaded
        /\ lastSent' \in {"put", "query"} => (req'.url = uploadUrl' /\ req'.url \notin discarded') ]_vars

\* C5 witness: after a confirmed chunk and a dead session, the first chunk of
\* the second session is in flight.
C5_Witness ==
    /\ discarded = {1}
    /\ uploadUrl = 2
    /\ lastResp.to = "init"
    /\ pc = "put"
    /\ req = [ url |-> 2, start |-> 0, end |-> ChunkEnd(0, fileSize, chunkSize) ]
    /\ progress > 0

\* C6: once a chunk PUT has been answered 200 or 201, bytesUploaded equals the
\* file size and no further chunk PUT goes out.
C6_OkCompletesUpload ==
    (lastResp.to = "put" /\ lastResp.kind = "http" /\ lastResp.status \in {200, 201}) =>
        (bytesUploaded = fileSize /\ pc # "put")

\* C7: a file of size 0 is rejected before initiation: no request to the
\* worker, no PUT, no notification, and never status success.
C7_EmptyFileRejected ==
    (pc # "idle" /\ fileSize = 0) => (~InFlight /\ taskStatus = "error")

\* C8: once the file has left the queue with a request in flight, the step
\* that consumes that request's answer sends no request and changes nothing
\* the queue shows.
C8_CancelledTaskSendsNothing ==
    [][ (InFlight /\ uploadableFiles = << >>) =>
            (lastSent' = "none" /\ uploadableFiles' = uploadableFiles) ]_vars

\* C9: the notification is sent only with all bytes confirmed and without a
\* published error, and whichever way it ends (mail sent, mail refused, the
\* call itself failing) the task returns with status success.
C9_NotificationNeverFailsTask ==
    /\ pc = "notify" => (bytesUploaded >= fileSize /\ taskStatus # "error")
    /\ lastResp.to = "notify" => (pc = "done" /\ taskStatus = "success" /\ taskError = "")

\* C9 witness: the notification call itself failed and the task is a success.
C9_Witness ==
    /\ lastResp.to = "notify"
    /\ lastResp.kind = "failure"
    /\ fileSize > 0
    /\ bytesUploaded = fileSize
    /\ taskStatus = "success"

\* The place of a status in pending -> initiating -> uploading -> { success, error }.
StatusRank(status) ==
    CASE status = "none" -> 0
      [] status = "pending" -> 1
      [] status = "initiating" -> 2
      [] status = "uploading" -> 3
      [] status \in {"success", "error"} -> 4

\* C21: the statuses a task publishes never go back in the order pending,
\* initiating, uploading, { success, error }; the record in the queue shows the
\* status published last; once success or error is published, start has
\* returned, the status, progress and error stay as they are, and no request
\* is sent.
C21_StatusesOnlyAdvance ==
    /\ [](/\ taskStatus \in {"success", "error"} <=> pc = "done"
          /\ \A i \in 1..Len(uploadableFiles) : uploadableFiles[i].status = taskStatus)
    /\ [][ /\ StatusRank(taskStatus') >= StatusRank(taskStatus)
           /\ taskStatus \in {"success", "error"} =>
                 /\ taskStatus' = taskStatus
                 /\ taskError' = taskError
                 /\ progress' = progress
                 /\ pc' = "done"
                 /\ lastSent' = "none"
                 /\ req' = NoReq ]_vars

\* C21 witness: a task that restarted on a second session after publishing
\* uploading has ended in success.
C21_Witness ==
    /\ taskStatus = "success"
    /\ pc = "done"
    /\ discarded # {}
    /\ progress = 100
    /\ \E i \in 1..Len(uploadableFiles) : uploadableFiles[i].status = "success"

\* C23: once every byte is confirmed the task shows success, whether or not
\* the notification call has returned: while the notification is outstanding
\* the status is already success.
C23_SuccessDoesNotWaitForNotification ==
    (pc = "notify" /\ bytesUploaded >= fileSize) => taskStatus = "success"

\* C25: a task whose file has at least one byte reaches success only after the
\* storage API answered one of its requests with 200 or 201: against a storage
\* API that never answers 200 or 201 (SpecPending), whatever 308 it sends for
\* the final chunk, no task reaches success.
C25_SuccessNeedsOk == taskStatus # "success"

\* C27: currentRetry goes down only in the step that consumes an accepted
\* chunk PUT; the answer to a status query, and the initiation a dead session
\* causes, leave it as it is.  Every status query is sent by the failed chunk
\* PUT that counts one more failure, the MaxRetries-th at the latest, so since
\* the last accepted chunk PUT there are at most MaxRetries + 1 failed chunk
\* PUTs and at most MaxRetries status queries.
C27_RetryResetOnlyByAcceptedPut ==
    /\ [](currentRetry <= MaxRetries + 1 /\ failStreak <= MaxRetries + 1)
    /\ [][ /\ currentRetry' < currentRetry => AcceptedChunkStep
           /\ pc \in {"query", "reinit"} => (currentRetry' = currentRetry /\ failStreak' = failStreak)
           /\ (pc # "query" /\ pc' = "query") =>
                 /\ FailedChunkStep
                 /\ failStreak' = failStreak + 1
                 /\ currentRetry' = currentRetry + 1
                 /\ failStreak' <= MaxRetries ]_vars

\* C27 witness: a task whose recovery moved it to a second session has ended on
\* its (MaxRetries + 1)-th failed chunk PUT in a row, the retry count never
\* having been given back.
C27_Witness ==
    /\ pc = "done"
    /\ taskStatus = "error"
    /\ currentRetry = MaxRetries + 1
    /\ failStreak = MaxRetries + 1
    /\ discarded # {}
    /\ lastResp.to = "put"

\* C26: when every request eventually returns (SpecReturns), a started task
\* eventually publishes success or error, whatever the storage API answers.
C26_StartedTaskEnds == (pc # "idle") ~> (taskStatus \in {"success", "error"})

\* The requests of uploader k that are outstanding.
Outstanding(k) == { m \in network : m.task = k }

\* C22: with any number of uploaders running at once, each has at most one
\* request outstanding (none once start has returned), the one its method
\* awaits; when a step sends a request of an uploader, a chunk PUT included,
\* the uploader's previous request has settled and is no longer outstanding.
C22_OneRequestPerTask ==
    /\ [](\A k \in 1..Len(uploaders) :
            /\ Cardinality(Outstanding(k)) <= 1
            /\ uploaders[k].pc = "done" <=> Outstanding(k) = {}
            /\ \A m \in Outstanding(k) :
                   m.kind = CASE uploaders[k].pc \in {"initiate", "reinit"} -> "init"
                              [] OTHER -> uploaders[k].pc)
    /\ [][ \A k \in 1..Len(uploaders) :
             uploaders'[k] # uploaders[k] =>
                 /\ \A j \in 1..Len(uploaders) : j # k => uploaders'[j] = uploaders[j]
                 /\ Cardinality(Outstanding(k)) = 1
                 /\ Cardinality(Outstanding(k)') <= 1
                 /\ \A j \in 1..Len(uploaders) : j # k => Outstanding(j)' = Outstanding(j) ]_vars

\* C22 witness: two uploaders are both waiting for the answer to a chunk PUT,
\* the first after a status query, the second after an accepted chunk.
C22_Witness ==
    /\ Len(uploaders) >= 2
    /\ uploaders[1].pc = "put"
    /\ uploaders[1].currentRetry > 0
    /\ uploaders[2].pc = "put"
    /\ uploaders[2].bytesUploaded > 0
    /\ Request(1, "put") \in network
    /\ Request(2, "put") \in network

\* C24: a state change published by one uploader changes, in the queue, only
\* the record of the file that uploader was built for.
C24_StateChangeReachesOwnRecordOnly ==
    [][ Len(uploadableFiles') = Len(uploadableFiles) =>
          \A i \in 1..Len(uploadableFiles) :
              uploadableFiles'[i] # uploadableFiles[i] =>
                  \E k \in 1..Len(uploaders) :
                      /\ uploaders'[k] # uploaders[k]
                      /\ uploaders[k].file = uploadableFiles[i].file ]_vars

====
